---------------------------- MODULE Spec2Model ----------------------------
(***************************************************************************)
(* Chaum-Pedersen proof of equality of discrete logarithms (src/lib.rs).   *)
(*                                                                         *)
(* The library is a struct ZKP {p, q, alpha, beta} with four operations:   *)
(* exponentiate, solve, verify and generate_random_below.  BigUint is an   *)
(* unbounded natural number: subtraction below zero panics, and modpow     *)
(* with a zero modulus panics.  An outcome of an operation is therefore a  *)
(* record [ok, val, err]: a value, or a panic with its cause.              *)
(*                                                                         *)
(* Two specifications:                                                     *)
(*   SpecApi - a caller invoking the four operations one after another on  *)
(*             arbitrary (also malformed) arguments;                       *)
(*   Spec    - the prove/verify run of the tests (test_example and         *)
(*             test_example_with_random_numbers), followed by a forged     *)
(*             response with a substituted secret, or by a second response *)
(*             that reuses the nonce.                                      *)
(***************************************************************************)
EXTENDS Integers, Naturals, FiniteSets, Sequences, TLC

VARIABLES
    call,         \* SpecApi: the operation in progress, its arguments and outcome
    pc,           \* position in the test run
    zkp,          \* the instance: [p, q, alpha, beta]
    x, k, c,      \* secret, nonce, challenge
    y1, y2,       \* commitment pair
    r1, r2,       \* announcement pair
    s,            \* response
    result,       \* verdict of verify on the honest response
    x_fake,       \* substituted secret
    s_fake,       \* response computed from the substituted secret
    result_fake,  \* verdict of verify on the forged response
    c2, s2        \* second challenge and response under the same nonce

vars == <<call, pc, zkp, x, k, c, y1, y2, r1, r2, s, result,
          x_fake, s_fake, result_fake, c2, s2>>

protoVars == <<pc, zkp, x, k, c, y1, y2, r1, r2, s, result,
               x_fake, s_fake, result_fake, c2, s2>>

-----------------------------------------------------------------------------
(* Bounds *)

\* largest modulus p of the enumerated groups of the test run
MaxP == 10

\* largest modulus (p, q, modulus) a caller passes in SpecApi
MaxMod == 3

\* largest value of every other argument a caller passes in SpecApi
MaxArg == 3

-----------------------------------------------------------------------------
(* Outcomes *)

Ok(v) == [ok |-> TRUE, val |-> v, err |-> "none"]

Panic(why) == [ok |-> FALSE, val |-> 0, err |-> why]

PanicB(why) == [ok |-> FALSE, val |-> FALSE, err |-> why]

-----------------------------------------------------------------------------
(* BigUint arithmetic used by the library *)

\* BigUint - BigUint: panics when the result would be negative
CheckedSub(a, b) ==
    IF a >= b THEN Ok(a - b) ELSE Panic("underflow")

\* ModPowLoop with the bit test inverted
RECURSIVE ModPowLoop_badbit(_, _, _, _)
ModPowLoop_badbit(base, e, m, acc) ==
    IF e = 0 THEN acc
    ELSE ModPowLoop_badbit((base * base) % m, e \div 2, m,
                           IF e % 2 = 0 THEN (acc * base) % m ELSE acc)

\* square-and-multiply over the bits of the exponent, reducing at each step
RECURSIVE ModPowLoop(_, _, _, _)
ModPowLoop(base, e, m, acc) ==
    IF e = 0 THEN acc
    ELSE ModPowLoop((base * base) % m, e \div 2, m,
                    IF e % 2 = 1 THEN (acc * base) % m ELSE acc)

\* BigUint::modpow: asserts a non-zero modulus
modpow(n, e, m) ==
    IF m = 0 THEN Panic("zero modulus")
    ELSE Ok(ModPowLoop(n % m, e, m, 1 % m))

-----------------------------------------------------------------------------
(* The four operations of impl ZKP *)

\* exponentiate answering 0 for a zero modulus instead of failing
exponentiate_zero(n, exponent, modulus) ==
    IF modulus = 0 THEN Ok(0) ELSE modpow(n, exponent, modulus)

exponentiate(n, exponent, modulus) == modpow(n, exponent, modulus)

\* solve without the sign branch
solve_nobranch(self, k_, c_, x_) ==
    LET d == CheckedSub(k_, c_ * x_)
    IN  IF d.ok THEN modpow(d.val, 1, self.q) ELSE d

\* solve returning (c*x - k) mod q in the second branch
solve_wrongsign(self, k_, c_, x_) ==
    IF k_ >= c_ * x_
    THEN LET d == CheckedSub(k_, c_ * x_)
         IN  IF d.ok THEN modpow(d.val, 1, self.q) ELSE d
    ELSE LET d == CheckedSub(c_ * x_, k_)
         IN  IF d.ok THEN modpow(d.val, 1, self.q) ELSE d

solve(self, k_, c_, x_) ==
    IF k_ >= c_ * x_
    THEN LET d == CheckedSub(k_, c_ * x_)
         IN  IF d.ok THEN modpow(d.val, 1, self.q) ELSE d
    ELSE LET d == CheckedSub(c_ * x_, k_)
         IN  IF ~d.ok THEN d
             ELSE LET m == modpow(d.val, 1, self.q)
                  IN  IF m.ok THEN CheckedSub(self.q, m.val) ELSE m

\* verify with the exponents c and s swapped
verify_swapped(self, r1_, r2_, y1_, y2_, c_, s_) ==
    LET a1 == modpow(self.alpha, c_, self.p)
        b1 == modpow(y1_, s_, self.p)
        a2 == modpow(self.beta, c_, self.p)
        b2 == modpow(y2_, s_, self.p)
    IN  IF ~(a1.ok /\ b1.ok /\ a2.ok /\ b2.ok) THEN PanicB("zero modulus")
        ELSE LET cond1 == r1_ = modpow(a1.val * b1.val, 1, self.p).val
                 cond2 == r2_ = modpow(a2.val * b2.val, 1, self.p).val
             IN  Ok(cond1 /\ cond2)

\* verify without the y^c factor
verify_noY(self, r1_, r2_, y1_, y2_, c_, s_) ==
    LET a1 == modpow(self.alpha, s_, self.p)
        a2 == modpow(self.beta, s_, self.p)
    IN  IF ~(a1.ok /\ a2.ok) THEN PanicB("zero modulus")
        ELSE Ok(r1_ = a1.val /\ r2_ = a2.val)

\* verify accepting when either condition holds
verify_or(self, r1_, r2_, y1_, y2_, c_, s_) ==
    LET a1 == modpow(self.alpha, s_, self.p)
        b1 == modpow(y1_, c_, self.p)
        a2 == modpow(self.beta, s_, self.p)
        b2 == modpow(y2_, c_, self.p)
    IN  IF ~(a1.ok /\ b1.ok /\ a2.ok /\ b2.ok) THEN PanicB("zero modulus")
        ELSE LET cond1 == r1_ = modpow(a1.val * b1.val, 1, self.p).val
                 cond2 == r2_ = modpow(a2.val * b2.val, 1, self.p).val
             IN  Ok(cond1 \/ cond2)

verify(self, r1_, r2_, y1_, y2_, c_, s_) ==
    LET a1 == modpow(self.alpha, s_, self.p)
        b1 == modpow(y1_, c_, self.p)
        a2 == modpow(self.beta, s_, self.p)
        b2 == modpow(y2_, c_, self.p)
    IN  IF ~(a1.ok /\ b1.ok /\ a2.ok /\ b2.ok) THEN PanicB("zero modulus")
        ELSE LET cond1 == r1_ = modpow(a1.val * b1.val, 1, self.p).val
                 cond2 == r2_ = modpow(a2.val * b2.val, 1, self.p).val
             IN  Ok(cond1 /\ cond2)

\* sampling that includes the bound itself
generate_random_below_incl(bound) ==
    IF bound = 0 THEN {Panic("zero bound")}
    ELSE {Ok(v) : v \in 0 .. bound}

\* the outcomes gen_biguint_below can produce: it asserts a non-zero bound
generate_random_below(bound) ==
    IF bound = 0 THEN {Panic("zero bound")}
    ELSE {Ok(v) : v \in 0 .. (bound - 1)}

-----------------------------------------------------------------------------
(* Group parameters *)

\* n^e mod m by repeated multiplication (the mathematical definition)
RECURSIVE PowMod(_, _, _)
PowMod(n, e, m) ==
    IF e = 0 THEN 1 % m ELSE ((n % m) * PowMod(n, e - 1, m)) % m

IsPrime(n) == n > 1 /\ \A d \in 2 .. (n - 1) : n % d # 0

\* a has multiplicative order n modulo p
HasOrder(a, n, p) ==
    /\ n >= 1
    /\ PowMod(a, n, p) = 1
    /\ \A j \in 1 .. (n - 1) : PowMod(a, j, p) # 1

\* the constants of test_example
TestExample == [p |-> 23, q |-> 11, alpha |-> 4, beta |-> 9]

\* well-formed instances: p prime, 1 < alpha, beta < p, both of order q
GroupParameters ==
    { [p |-> p_, q |-> q_, alpha |-> a, beta |-> b] :
        p_ \in {n \in 2 .. MaxP : IsPrime(n)},
        q_ \in 2 .. MaxP, a \in 2 .. MaxP, b \in 2 .. MaxP }

WellFormed(g) ==
    /\ g.alpha < g.p /\ g.beta < g.p /\ g.q < g.p
    /\ HasOrder(g.alpha, g.q, g.p)
    /\ HasOrder(g.beta, g.q, g.p)

Instances == {g \in GroupParameters : WellFormed(g)} \cup {TestExample}

-----------------------------------------------------------------------------
(* SpecApi: a caller invoking the operations on arbitrary arguments *)

NoCall == [op |-> "none"]

Idle ==
    /\ pc = "api"
    /\ zkp = [p |-> 0, q |-> 0, alpha |-> 0, beta |-> 0]
    /\ x = 0 /\ k = 0 /\ c = 0
    /\ y1 = 0 /\ y2 = 0 /\ r1 = 0 /\ r2 = 0
    /\ s = 0 /\ result = FALSE
    /\ x_fake = 0 /\ s_fake = 0 /\ result_fake = FALSE
    /\ c2 = 0 /\ s2 = 0

InitApi ==
    /\ call = NoCall
    /\ Idle

CallExponentiate ==
    /\ call.op = "none"
    /\ \E n \in 0 .. MaxArg, e \in 0 .. MaxArg, m \in 0 .. MaxMod :
          call' = [op |-> "exponentiate", n |-> n, exponent |-> e,
                   modulus |-> m, ret |-> exponentiate(n, e, m)]
    /\ UNCHANGED protoVars

CallSolve ==
    /\ call.op = "none"
    /\ \E q_ \in 0 .. MaxMod, k_ \in 0 .. MaxArg, c_ \in 0 .. MaxArg,
          x_ \in 0 .. MaxArg :
          call' = [op |-> "solve", q |-> q_, k |-> k_, c |-> c_, x |-> x_,
                   ret |-> solve([p |-> 0, q |-> q_, alpha |-> 0, beta |-> 0],
                                 k_, c_, x_)]
    /\ UNCHANGED protoVars

CallVerify ==
    /\ call.op = "none"
    /\ \E p_ \in 0 .. MaxMod, a \in 0 .. MaxArg, b \in 0 .. MaxArg,
          r1_ \in 0 .. MaxArg, r2_ \in 0 .. MaxArg,
          y1_ \in 0 .. MaxArg, y2_ \in 0 .. MaxArg,
          c_ \in 0 .. MaxArg, s_ \in 0 .. MaxArg :
          call' = [op |-> "verify", p |-> p_, alpha |-> a, beta |-> b,
                   r1 |-> r1_, r2 |-> r2_, y1 |-> y1_, y2 |-> y2_,
                   c |-> c_, s |-> s_,
                   ret |-> verify([p |-> p_, q |-> 0, alpha |-> a, beta |-> b],
                                  r1_, r2_, y1_, y2_, c_, s_)]
    /\ UNCHANGED protoVars

CallGenerateRandomBelow ==
    /\ call.op = "none"
    /\ \E bound \in 0 .. MaxMod :
          \E v \in generate_random_below(bound) :
             call' = [op |-> "generate_random_below", bound |-> bound,
                      ret |-> v]
    /\ UNCHANGED protoVars

Return ==
    /\ call.op # "none"
    /\ call' = NoCall
    /\ UNCHANGED protoVars

NextApi ==
    \/ CallExponentiate
    \/ CallSolve
    \/ CallVerify
    \/ CallGenerateRandomBelow
    \/ Return

SpecApi == InitApi /\ [][NextApi]_vars

-----------------------------------------------------------------------------
(* Spec: the prove/verify run of the tests *)

Init ==
    /\ call = NoCall
    /\ pc = "start"
    /\ zkp \in Instances
    /\ x \in 0 .. (zkp.q - 1)
    /\ \E kr \in generate_random_below(zkp.q) : kr.ok /\ k = kr.val
    /\ \E cr \in generate_random_below(zkp.q) : cr.ok /\ c = cr.val
    /\ y1 = 0 /\ y2 = 0 /\ r1 = 0 /\ r2 = 0
    /\ s = 0 /\ result = FALSE
    /\ x_fake = 0 /\ s_fake = 0 /\ result_fake = FALSE
    /\ c2 = 0 /\ s2 = 0

\* y1 = alpha^x mod p, y2 = beta^x mod p
ComputeY ==
    /\ pc = "start"
    /\ LET e1 == exponentiate(zkp.alpha, x, zkp.p)
           e2 == exponentiate(zkp.beta, x, zkp.p)
       IN  /\ e1.ok /\ e2.ok
           /\ y1' = e1.val
           /\ y2' = e2.val
    /\ pc' = "committed"
    /\ UNCHANGED <<call, zkp, x, k, c, r1, r2, s, result,
                   x_fake, s_fake, result_fake, c2, s2>>

\* r1 = alpha^k mod p, r2 = beta^k mod p
ComputeR ==
    /\ pc = "committed"
    /\ LET e1 == exponentiate(zkp.alpha, k, zkp.p)
           e2 == exponentiate(zkp.beta, k, zkp.p)
       IN  /\ e1.ok /\ e2.ok
           /\ r1' = e1.val
           /\ r2' = e2.val
    /\ pc' = "announced"
    /\ UNCHANGED <<call, zkp, x, k, c, y1, y2, s, result,
                   x_fake, s_fake, result_fake, c2, s2>>

\* s = zkp.solve(k, c, x)
Solve ==
    /\ pc = "announced"
    /\ LET o == solve(zkp, k, c, x)
       IN  o.ok /\ s' = o.val
    /\ pc' = "solved"
    /\ UNCHANGED <<call, zkp, x, k, c, y1, y2, r1, r2, result,
                   x_fake, s_fake, result_fake, c2, s2>>

\* result = zkp.verify(r1, r2, y1, y2, c, s)
Verify ==
    /\ pc = "solved"
    /\ LET o == verify(zkp, r1, r2, y1, y2, c, s)
       IN  o.ok /\ result' = o.val
    /\ pc' = "verified"
    /\ UNCHANGED <<call, zkp, x, k, c, y1, y2, r1, r2, s,
                   x_fake, s_fake, result_fake, c2, s2>>

\* s_fake = zkp.solve(k, c, x_fake)
FakeSolve ==
    /\ pc = "verified"
    /\ \E xf \in 0 .. (zkp.q - 1) :
          LET o == solve(zkp, k, c, xf)
          IN  o.ok /\ x_fake' = xf /\ s_fake' = o.val
    /\ pc' = "fake_solved"
    /\ UNCHANGED <<call, zkp, x, k, c, y1, y2, r1, r2, s, result,
                   result_fake, c2, s2>>

\* result = zkp.verify(r1, r2, y1, y2, c, s_fake)
FakeVerify ==
    /\ pc = "fake_solved"
    /\ LET o == verify(zkp, r1, r2, y1, y2, c, s_fake)
       IN  o.ok /\ result_fake' = o.val
    /\ pc' = "fake_verified"
    /\ UNCHANGED <<call, zkp, x, k, c, y1, y2, r1, r2, s, result,
                   x_fake, s_fake, c2, s2>>

\* a second challenge answered with the nonce of the first proof
ReuseNonce ==
    /\ pc = "verified"
    /\ \E cr \in generate_random_below(zkp.q) :
          LET o == solve(zkp, k, cr.val, x)
          IN  cr.ok /\ o.ok /\ c2' = cr.val /\ s2' = o.val
    /\ pc' = "reused"
    /\ UNCHANGED <<call, zkp, x, k, c, y1, y2, r1, r2, s, result,
                   x_fake, s_fake, result_fake>>

Next ==
    \/ ComputeY
    \/ ComputeR
    \/ Solve
    \/ Verify
    \/ FakeSolve
    \/ FakeVerify
    \/ ReuseNonce

Spec == Init /\ [][Next]_vars

-----------------------------------------------------------------------------
(* Properties *)

\* the instance satisfies the data-model invariant of the group parameters
OrderQ ==
    /\ HasOrder(zkp.alpha, zkp.q, zkp.p)
    /\ HasOrder(zkp.beta, zkp.q, zkp.p)

\* r is congruent to g^e * y^f modulo m
Congruent(r, g, e, y, f, m) ==
    r % m = (PowMod(g, e, m) * PowMod(y, f, m)) % m

\* the multiplicative inverse of d modulo the prime q_
Inverse(d, q_) == CHOOSE i \in 0 .. (q_ - 1) : (i * (d % q_)) % q_ = 1

\* C1: completeness - with p prime and alpha, beta of order q, verify accepts
\* the honestly computed (r1, r2, y1, y2, c, s) for every x, k, c in [0, q).
Completeness ==
    (pc \in {"verified", "fake_solved", "fake_verified", "reused"}
        /\ IsPrime(zkp.p) /\ OrderQ)
    => result = TRUE

\* an honest run was accepted whose response came from the k < c*x branch
CompletenessWitness ==
    /\ pc = "verified" /\ result = TRUE
    /\ IsPrime(zkp.p) /\ OrderQ
    /\ k < c * x

\* C2: soundness against a substituted secret - with q prime and x_fake # x,
\* at most one challenge in [0, q) makes verify accept the forged response:
\* if the run's challenge is accepted, every other challenge is rejected.
SoundnessSubstituted ==
    (pc = "fake_verified" /\ IsPrime(zkp.q) /\ OrderQ /\ x_fake # x
        /\ result_fake = TRUE)
    => \A cc \in (0 .. (zkp.q - 1)) \ {c} :
          LET sf == solve(zkp, k, cc, x_fake)
          IN  sf.ok /\ verify(zkp, r1, r2, y1, y2, cc, sf.val) = Ok(FALSE)

\* a forged response was accepted for the one challenge that admits it
SoundnessWitness ==
    /\ pc = "fake_verified" /\ IsPrime(zkp.q) /\ OrderQ
    /\ x_fake # x /\ result_fake = TRUE

\* C3: solve returns the non-negative representative of (k - c*x) mod q,
\* a value in [0, q), for every q >= 1 and k, c, x in [0, q).
SolveIsModularDifference ==
    (call.op = "solve" /\ call.q >= 1
        /\ call.k < call.q /\ call.c < call.q /\ call.x < call.q)
    => /\ call.ret.ok
       /\ call.ret.val >= 0 /\ call.ret.val < call.q
       /\ call.ret.val = (call.k - call.c * call.x) % call.q

\* C4 as stated: verify returns true iff both congruences hold, also for
\* arguments not reduced into [0, p).
VerifyIffCongruent ==
    (call.op = "verify" /\ call.p > 1)
    => /\ call.ret.ok
       /\ call.ret.val <=>
            /\ Congruent(call.r1, call.alpha, call.s, call.y1, call.c, call.p)
            /\ Congruent(call.r2, call.beta, call.s, call.y2, call.c, call.p)

\* C4 amended: verify returns true iff r1 and r2 lie in [0, p) and both
\* congruences hold; y1, y2, c, s, alpha, beta need not be reduced.
VerifyIffReducedAndCongruent ==
    (call.op = "verify" /\ call.p > 1)
    => /\ call.ret.ok
       /\ call.ret.val <=>
            /\ call.r1 < call.p /\ call.r2 < call.p
            /\ Congruent(call.r1, call.alpha, call.s, call.y1, call.c, call.p)
            /\ Congruent(call.r2, call.beta, call.s, call.y2, call.c, call.p)

\* verify accepted a call whose y1 and s are not reduced modulo p
VerifyWitness ==
    /\ call.op = "verify" /\ call.p > 1
    /\ call.y1 >= call.p /\ call.s >= call.p
    /\ call.alpha > 1 /\ call.r1 > 0
    /\ call.ret = Ok(TRUE)

\* C5: the concrete vector p=23, q=11, alpha=4, beta=9, x=6, k=7, c=4 gives
\* y1=2, y2=3, r1=8, r2=4, s=5 and an accepting verify; with x_fake=7 the
\* forged response is rejected.
ConcreteVector ==
    (zkp = TestExample /\ x = 6 /\ k = 7 /\ c = 4)
    => /\ pc # "start" => (y1 = 2 /\ y2 = 3)
       /\ pc \notin {"start", "committed"} => (r1 = 8 /\ r2 = 4)
       /\ pc \notin {"start", "committed", "announced"} => s = 5
       /\ pc \in {"verified", "fake_solved", "fake_verified", "reused"}
             => result = TRUE
       /\ (pc = "fake_verified" /\ x_fake = 7) => result_fake = FALSE

\* test_example ran to its last assertion
ConcreteVectorWitness ==
    /\ zkp = TestExample /\ x = 6 /\ k = 7 /\ c = 4
    /\ pc = "fake_verified" /\ x_fake = 7
    /\ s = 5 /\ result = TRUE

\* C6: exponentiate computes base^exponent mod modulus for every modulus > 1;
\* exponent 0 gives 1 mod m and exponent 1 gives n mod m.
ExponentiateIsPower ==
    (call.op = "exponentiate" /\ call.modulus > 1)
    => /\ call.ret = Ok(PowMod(call.n, call.exponent, call.modulus))
       /\ call.exponent = 0 => call.ret = Ok(1 % call.modulus)
       /\ call.exponent = 1 => call.ret = Ok(call.n % call.modulus)

\* an unreduced base was raised to an exponent of two bits
ExponentiateWitness ==
    /\ call.op = "exponentiate" /\ call.modulus > 1
    /\ call.exponent >= 3 /\ call.n >= call.modulus
    /\ call.ret.ok /\ call.ret.val # 0

\* C7: generate_random_below(bound) returns v with 0 <= v < bound, at every
\* call of a sequence of calls.
RandomBelowBound ==
    (call.op = "generate_random_below" /\ call.ret.ok)
    => (0 <= call.ret.val /\ call.ret.val < call.bound)

\* the largest admissible value was drawn
RandomBelowWitness ==
    /\ call.op = "generate_random_below" /\ call.ret.ok
    /\ call.bound > 1 /\ call.ret.val = call.bound - 1

\* C8: exponentiate with modulus 0 ends in an error and returns no number.
ZeroModulusRejected ==
    (call.op = "exponentiate" /\ call.modulus = 0)
    => (~call.ret.ok /\ call.ret.err = "zero modulus")

\* exponentiate was called with a zero modulus and a non-zero base
ZeroModulusWitness ==
    /\ call.op = "exponentiate" /\ call.modulus = 0
    /\ call.n > 0 /\ ~call.ret.ok

\* C9: nonce reuse - with q prime and c2 # c, the responses s and s2 computed
\* with the same k give x = (s - s2) * (c2 - c)^(-1) mod q, and no other
\* secret yields the same pair of responses.
NonceReuseLeaksSecret ==
    (pc = "reused" /\ IsPrime(zkp.q) /\ c2 # c)
    => /\ x = ((s - s2) * Inverse(c2 - c, zkp.q)) % zkp.q
       /\ \A xo \in (0 .. (zkp.q - 1)) \ {x} :
             <<solve(zkp, k, c, xo).val, solve(zkp, k, c2, xo).val>>
                # <<s, s2>>

\* the nonce was reused for a different challenge, on either side of the
\* sign branch
NonceReuseWitness ==
    /\ pc = "reused" /\ IsPrime(zkp.q) /\ c2 # c
    /\ k < c * x /\ k >= c2 * x /\ x > 1

\* C10: solve is total for q >= 1 - none of its unsigned subtractions
\* underflows, for arguments reduced modulo q or not.
SolveNeverUnderflows ==
    (call.op = "solve" /\ call.q >= 1)
    => (call.ret.ok /\ call.ret.err # "underflow")

\* solve took the second branch on arguments larger than q
SolveTotalWitness ==
    /\ call.op = "solve" /\ call.q >= 1
    /\ call.k < call.c * call.x
    /\ call.k > call.q /\ call.c > call.q
    /\ call.ret.ok

=============================================================================
